---- MODULE Spec2Model ----
(***************************************************************************)
(* liana-py: the per-sample orchestration of a scoring method              *)
(* (MethodMeta.by_sample, liana/method/_Method.py), the registry of        *)
(* methods (MethodMeta.instances) and the result-table transforms behind   *)
(* the dotplots (liana/plotting/_dotplot.py).                              *)
(*                                                                         *)
(* A DataFrame is a record [index, rows]: index is the sequence of row     *)
(* labels, rows the sequence of rows, each row a function from column      *)
(* name to value.  Sample names and cell-group names are small naturals,   *)
(* their natural order standing for the order pandas sorts labels in.      *)
(***************************************************************************)
EXTENDS Integers, Sequences, FiniteSets, TLC

\* ---- bounds -------------------------------------------------------------
NCells == 3
MaxSample == 2
NGroups == 2
min_cells == 1
NKeys == 4
MaxRows == 3
MaxScore == 2
MaxTopN == 2
MaxMethods == 2

Cells == 1..NCells
SampleIds == 1..MaxSample
GroupIds == 1..NGroups
\* a missing value of an obs column
NaN == 0

VARIABLES
    adata_obs,    \* adata.obs: column name -> [dtype, values, categories]
    adata_uns,    \* adata.uns['liana_res']: absent, a table, or a dict of tables
    pre_obs,      \* adata.obs as it was when by_sample was called
    pre_uns,      \* adata.uns['liana_res'] as it was when by_sample was called
    sample_key,   \* argument of by_sample
    inplace,      \* argument of by_sample
    samples,      \* local `samples`: the category levels iterated over
    i,            \* position of the loop in `samples`
    temp,         \* local `temp`: the cells of the subset handed to the scorer
    calls,        \* the invocations of __call__ so far: [sample, cells]
    returned,     \* the tables __call__ returned so far: [sample, df]
    warnings,     \* the warnings emitted so far
    ret,          \* what by_sample returned
    exc,          \* the exception by_sample ended with
    pc            \* position of by_sample

\* the state of a by_sample call
bs_vars == <<adata_obs, adata_uns, pre_obs, pre_uns, sample_key, inplace,
             samples, i, temp, calls, returned, warnings, ret, exc, pc>>

VARIABLES
    dp_table,     \* the caller's result table (passed as liana_res or in adata.uns)
    dp_cur,       \* local `liana_res` of dotplot: the working copy
    dp_ref,       \* the object local `liana_res` is bound to
    dp_in,        \* the working copy as it was before the latest step
    dp_arg,       \* the arguments the latest step used
    dp_exc,       \* the exception dotplot ended with
    dp_ret,       \* what dotplot returned
    dp_pc         \* position of dotplot

\* the state of a dotplot call
dp_vars == <<dp_table, dp_cur, dp_ref, dp_in, dp_arg, dp_exc, dp_ret, dp_pc>>

VARIABLES
    tn_table,     \* a prepared result table, handed to each of the calls compared
    tn_asc,       \* orderby_ascending of the calls compared
    tn_tie,       \* the order the sort leaves equal rows of this table in
    tn_out        \* tn_out[K]: the rows the call with top_n = K retained

\* the state of a comparison of top_n selections
tn_vars == <<tn_table, tn_asc, tn_tie, tn_out>>

VARIABLES
    instances,    \* MethodMeta.instances: the weak proxies, as object ids
    heap,         \* heap[id]: the instance built id-th, [alive, cls, attrs]
    strong,       \* the ids of the instances the caller holds a reference to
    reg_out       \* what the latest query of the registry returned or raised

\* the state of the method registry
reg_vars == <<instances, heap, strong, reg_out>>

vars == <<bs_vars, dp_vars, tn_vars, reg_vars>>

\* ---- helpers ------------------------------------------------------------
Range(s) == {s[k] : k \in DOMAIN s}

SeqsNoDup(S) ==
    {q \in UNION {[1..n -> S] : n \in 0..Cardinality(S)} :
        \A a, b \in DOMAIN q : a # b => q[a] # q[b]}

RECURSIVE SortedSeq(_)
SortedSeq(S) ==
    IF S = {} THEN <<>>
    ELSE LET m == CHOOSE v \in S : \A w \in S : v <= w
         IN <<m>> \o SortedSeq(S \ {m})

RECURSIVE SumOver(_)
SumOver(S) ==
    IF S = {} THEN 0
    ELSE LET c == CHOOSE v \in S : TRUE IN c + SumOver(S \ {c})

Absent == [kind |-> "absent"]
Table(df) == [kind |-> "table", df |-> df]
Dict(items) == [kind |-> "dict", items |-> items]
Unset == [kind |-> "unset"]
None == [kind |-> "none"]

EmptyDF == [index |-> <<>>, rows |-> <<>>]

\* a result table left in adata.uns['liana_res'] by an earlier run
OldRes ==
    [index |-> <<0>>,
     rows |-> <<[source |-> 1, target |-> 1, ligand_complex |-> "L1",
                 receptor_complex |-> "R1", lr_means |-> 0]>>]

\* ---- pandas -------------------------------------------------------------
\* Series.astype("category"): the levels are the sorted unique non-missing values
astype_category(col) ==
    [dtype |-> "category",
     values |-> col.values,
     categories |-> SortedSeq({col.values[c] : c \in Cells} \ {NaN})]

\* the mask written as "up to this level" instead of "equal to this level"
Subset_cumulative(obs, key, sample) ==
    {c \in Cells : obs[key].values[c] # NaN /\ obs[key].values[c] <= sample}

\* adata[adata.obs[sample_key] == sample]: the cells the mask selects
Subset(obs, key, sample) == {c \in Cells : obs[key].values[c] = sample}

\* the result mapping rebuilt on every assignment
DictSet_overwrite(items, key, df) == <<[key |-> key, df |-> df]>>

\* d[key] = value on an insertion-ordered dict
DictSet(items, key, df) ==
    IF \E k \in DOMAIN items : items[k].key = key
    THEN [k \in DOMAIN items |->
            IF items[k].key = key THEN [key |-> key, df |-> df] ELSE items[k]]
    ELSE Append(items, [key |-> key, df |-> df])

\* concat(dict): rows in dict order, index (dict key, original label)
RECURSIVE concat(_)
concat(items) ==
    IF items = <<>> THEN EmptyDF
    ELSE LET h == Head(items)
             r == concat(Tail(items))
         IN [index |-> [j \in 1..Len(h.df.index) |-> <<h.key, h.df.index[j]>>]
                          \o r.index,
             rows |-> h.df.rows \o r.rows]

\* DataFrame.reset_index(level=1, drop=True) on a two-level index
reset_index_drop_level1(df) ==
    [index |-> [j \in 1..Len(df.index) |-> df.index[j][1]], rows |-> df.rows]

\* reset_index that moves the index into a column but keeps the old labels
reset_index_keep(df) ==
    [index |-> df.index,
     rows |-> [j \in 1..Len(df.rows) |->
                 LET r == df.rows[j]
                 IN [c \in DOMAIN r \cup {"index"} |->
                        IF c = "index" THEN df.index[j] ELSE r[c]]]]

\* DataFrame.reset_index(): the index becomes a column, the rows are renumbered
reset_index(df) ==
    [index |-> [j \in 1..Len(df.rows) |-> j - 1],
     rows |-> [j \in 1..Len(df.rows) |->
                 LET r == df.rows[j]
                     name == IF "index" \in DOMAIN r THEN "level_0" ELSE "index"
                 IN [c \in DOMAIN r \cup {name} |->
                        IF c = name THEN df.index[j] ELSE r[c]]]]

\* DataFrame.rename({old: new}, axis=1)
rename(df, old, new) ==
    [index |-> df.index,
     rows |-> [j \in 1..Len(df.rows) |->
                 LET r == df.rows[j]
                 IN IF old \in DOMAIN r
                    THEN [c \in (DOMAIN r \ {old}) \cup {new} |->
                            IF c = new THEN r[old] ELSE r[c]]
                    ELSE r]]

\* ---- the scorer ---------------------------------------------------------
\* expression of a cell
Expr(c) == c

\* the k-th ordered (source, target) pair of groups, k from 0
PairAt(k) == <<(k \div NGroups) + 1, (k % NGroups) + 1>>

\* one row per ordered pair of groups that both have min_cells cells in the
\* data; the score is a statistic of the cells of the two groups
liana_pipe(obs, cells) ==
    LET grp(g) == {c \in cells : obs["cell_type"].values[c] = g}
        kept(k) == /\ Cardinality(grp(PairAt(k)[1])) >= min_cells
                   /\ Cardinality(grp(PairAt(k)[2])) >= min_cells
        idxs == SelectSeq([k \in 1..(NGroups * NGroups) |-> k - 1], kept)
    IN [index |-> idxs,
        rows |-> [j \in 1..Len(idxs) |->
                    LET p == PairAt(idxs[j])
                    IN [source |-> p[1], target |-> p[2],
                        ligand_complex |-> "L1", receptor_complex |-> "R1",
                        lr_means |-> SumOver({Expr(c) : c \in grp(p[1])})
                                     + 10 * SumOver({Expr(c) : c \in grp(p[2])})]]]

\* Method.__call__(adata, inplace=...): the value it returns
Method_call(obs, cells, inpl) ==
    IF inpl THEN None ELSE Table(liana_pipe(obs, cells))

\* ---- by_sample ----------------------------------------------------------
\* the sample column: any dtype; a categorical one has its levels in any order,
\* unused levels included, and every non-missing value among them
SampleColumns ==
    {col \in [dtype : {"category", "object"},
              values : [Cells -> {NaN} \cup SampleIds],
              categories : SeqsNoDup(SampleIds)] :
        /\ col.dtype = "object" => col.categories = <<>>
        /\ col.dtype = "category" =>
              \A c \in Cells : col.values[c] # NaN =>
                  col.values[c] \in Range(col.categories)}

\* the column of cell groups (the scorer's groupby), in two groupings: the
\* cells dealt to the groups in turn, and all cells in the first group
GroupColumns ==
    {[dtype |-> "category", values |-> v, categories |-> SortedSeq(GroupIds)] :
        v \in {[c \in Cells |-> ((c - 1) % NGroups) + 1], [c \in Cells |-> 1]}}

InitObs == {[sample |-> s, cell_type |-> g] : s \in SampleColumns, g \in GroupColumns}

\* no dotplot call is under way
DotplotIdle ==
    /\ dp_table = EmptyDF
    /\ dp_cur = None
    /\ dp_ref = "caller"
    /\ dp_in = None
    /\ dp_arg = None
    /\ dp_exc = None
    /\ dp_ret = Unset
    /\ dp_pc = "start"

\* no comparison of top_n selections is under way
TopNIdle ==
    /\ tn_table = EmptyDF
    /\ tn_asc = FALSE
    /\ tn_tie = <<>>
    /\ tn_out = <<>>

\* the registry as the class statement leaves it
RegistryIdle ==
    /\ instances = <<>>
    /\ heap = <<>>
    /\ strong = {}
    /\ reg_out = Unset

Init ==
    /\ DotplotIdle
    /\ TopNIdle
    /\ RegistryIdle
    /\ adata_obs \in InitObs
    /\ adata_uns \in {Absent, Table(OldRes)}
    /\ pre_obs = adata_obs
    /\ pre_uns = adata_uns
    /\ sample_key = "sample"
    /\ inplace = TRUE
    /\ samples = <<>>
    /\ i = 0
    /\ temp = {}
    /\ calls = <<>>
    /\ returned = <<>>
    /\ warnings = <<>>
    /\ ret = Unset
    /\ exc = "none"
    /\ pc = "idle"

\* by_sample with the result mapping emptied before the key is checked
by_sample_enter_late_check(key, inp) ==
    /\ UNCHANGED <<dp_vars, tn_vars, reg_vars>>
    /\ pc = "idle"
    /\ sample_key' = key
    /\ inplace' = inp
    /\ adata_uns' = Dict(<<>>)
    /\ IF key \notin DOMAIN adata_obs
       THEN /\ exc' = "ValueError"
            /\ pc' = "raised"
            /\ UNCHANGED <<adata_obs, samples, i, warnings>>
       ELSE /\ adata_obs' =
                 IF adata_obs[key].dtype # "category"
                 THEN [adata_obs EXCEPT ![key] = astype_category(@)]
                 ELSE adata_obs
            /\ warnings' = warnings
            /\ samples' = adata_obs'[key].categories
            /\ i' = 1
            /\ exc' = exc
            /\ pc' = "loop"
    /\ UNCHANGED <<pre_obs, pre_uns, temp, calls, returned, ret>>

\* by_sample, lines 117-132: the key check, the coercion, the levels, the
\* emptied result mapping
by_sample_enter(key, inp) ==
    /\ UNCHANGED <<dp_vars, tn_vars, reg_vars>>
    /\ pc = "idle"
    /\ sample_key' = key
    /\ inplace' = inp
    /\ IF key \notin DOMAIN adata_obs
       THEN /\ exc' = "ValueError"
            /\ pc' = "raised"
            /\ UNCHANGED <<adata_obs, adata_uns, samples, i, warnings>>
       ELSE /\ adata_obs' =
                 IF adata_obs[key].dtype # "category"
                 THEN [adata_obs EXCEPT ![key] = astype_category(@)]
                 ELSE adata_obs
            \* line 121 builds the message and discards it
            /\ warnings' = warnings
            /\ samples' = adata_obs'[key].categories
            /\ adata_uns' = Dict(<<>>)
            /\ i' = 1
            /\ exc' = exc
            /\ pc' = "loop"
    /\ UNCHANGED <<pre_obs, pre_uns, temp, calls, returned, ret>>

\* the loop walking the levels from the last to the first
by_sample_call_reversed ==
    /\ UNCHANGED <<dp_vars, tn_vars, reg_vars>>
    /\ pc = "loop"
    /\ i <= Len(samples)
    /\ temp' = Subset(adata_obs, sample_key, samples[Len(samples) + 1 - i])
    /\ calls' = Append(calls, [sample |-> samples[Len(samples) + 1 - i],
                               cells |-> temp'])
    /\ pc' = "in_call"
    /\ UNCHANGED <<adata_obs, adata_uns, pre_obs, pre_uns, sample_key, inplace,
                   samples, i, returned, warnings, ret, exc>>

\* lines 135-141: the subset of the next level is cut out and handed to __call__
by_sample_call ==
    /\ UNCHANGED <<dp_vars, tn_vars, reg_vars>>
    /\ pc = "loop"
    /\ i <= Len(samples)
    /\ temp' = Subset(adata_obs, sample_key, samples[i])
    /\ calls' = Append(calls, [sample |-> samples[i], cells |-> temp'])
    /\ pc' = "in_call"
    /\ UNCHANGED <<adata_obs, adata_uns, pre_obs, pre_uns, sample_key, inplace,
                   samples, i, returned, warnings, ret, exc>>

\* lines 141-143: __call__ returns and its table is recorded under the sample
by_sample_record ==
    /\ UNCHANGED <<dp_vars, tn_vars, reg_vars>>
    /\ pc = "in_call"
    /\ LET sample_res == Method_call(adata_obs, temp, FALSE).df
       IN /\ adata_uns' = Dict(DictSet(adata_uns.items, samples[i], sample_res))
          /\ returned' = Append(returned, [sample |-> samples[i], df |-> sample_res])
    /\ i' = i + 1
    /\ pc' = "loop"
    /\ UNCHANGED <<adata_obs, pre_obs, pre_uns, sample_key, inplace, samples,
                   temp, calls, warnings, ret, exc>>

\* a loop that swallows the scorer's exception and goes on to the next level
by_sample_raise_collect ==
    /\ UNCHANGED <<dp_vars, tn_vars, reg_vars>>
    /\ pc = "in_call"
    /\ exc' = "ScorerError"
    /\ i' = i + 1
    /\ pc' = "loop"
    /\ UNCHANGED <<adata_obs, adata_uns, pre_obs, pre_uns, sample_key, inplace,
                   samples, temp, calls, returned, warnings, ret>>

\* line 141: __call__ raises; nothing in by_sample catches it
by_sample_raise ==
    /\ UNCHANGED <<dp_vars, tn_vars, reg_vars>>
    /\ pc = "in_call"
    /\ exc' = "ScorerError"
    /\ pc' = "raised"
    /\ UNCHANGED <<adata_obs, adata_uns, pre_obs, pre_uns, sample_key, inplace,
                   samples, i, temp, calls, returned, warnings, ret>>

\* lines 145-150: the recorded tables are concatenated, stored or returned
by_sample_finish ==
    /\ UNCHANGED <<dp_vars, tn_vars, reg_vars>>
    /\ pc = "loop"
    /\ i > Len(samples)
    /\ IF adata_uns.items = <<>>
       THEN \* concat of no objects raises ValueError
            /\ exc' = "ValueError"
            /\ pc' = "raised"
            /\ UNCHANGED <<adata_uns, ret>>
       ELSE LET liana_res ==
                    rename(reset_index(reset_index_drop_level1(
                               concat(adata_uns.items))), "index", sample_key)
            IN /\ adata_uns' = IF inplace THEN Table(liana_res) ELSE adata_uns
               /\ ret' = IF inplace THEN None ELSE Table(liana_res)
               /\ exc' = exc
               /\ pc' = "done"
    /\ UNCHANGED <<adata_obs, pre_obs, pre_uns, sample_key, inplace, samples, i,
                   temp, calls, returned, warnings>>

Next ==
    \/ \E key \in {"sample", "batch"}, inp \in BOOLEAN : by_sample_enter(key, inp)
    \/ by_sample_call
    \/ by_sample_record
    \/ by_sample_raise
    \/ by_sample_finish

Spec == Init /\ [][Next]_vars

\* ---- properties of by_sample --------------------------------------------
\* the combined table by_sample produced
Combined == IF inplace THEN adata_uns.df ELSE ret.df

\* the samples of the invocations so far, in order
CalledSamples == [k \in 1..Len(calls) |-> calls[k].sample]

\* the keys of the result mapping, in insertion order
RecordedSamples == [k \in 1..Len(adata_uns.items) |-> adata_uns.items[k].key]

\* number of rows of the first k returned tables
RECURSIVE RowsBefore(_)
RowsBefore(k) ==
    IF k = 0 THEN 0 ELSE RowsBefore(k - 1) + Len(returned[k].df.rows)

WithColumn(r, col, v) == [c \in DOMAIN r \cup {col} |-> IF c = col THEN v ELSE r[c]]
WithoutColumn(r, col) == [c \in DOMAIN r \ {col} |-> r[c]]

\* C1: a sample_key that is no column of adata.obs makes by_sample fail with
\* ValueError before anything is computed: the scorer was never invoked and
\* adata.obs and adata.uns['liana_res'] are as they were before the call.
C1_MissingKeyFailsFirst ==
    (pc # "idle" /\ sample_key \notin DOMAIN pre_obs) =>
        /\ pc = "raised"
        /\ exc = "ValueError"
        /\ calls = <<>>
        /\ ret = Unset
        /\ adata_obs = pre_obs
        /\ adata_uns = pre_uns

C1_Witness ==
    /\ pc = "raised"
    /\ sample_key = "batch"
    /\ pre_uns = Table(OldRes)

\* C2: every invocation of the scorer gets exactly the cells whose sample_key
\* value is the level it is invoked for: none of another sample, none missing.
C2_SubsetIsTheSample ==
    \A k \in DOMAIN calls :
        /\ \A c \in calls[k].cells : pre_obs[sample_key].values[c] = calls[k].sample
        /\ \A c \in Cells : pre_obs[sample_key].values[c] = calls[k].sample
                               => c \in calls[k].cells

C2_Witness ==
    /\ Len(calls) = 2
    /\ calls[2].cells # {}
    /\ \E c \in Cells : pre_obs[sample_key].values[c] = calls[1].sample
    /\ \E c \in Cells : pre_obs[sample_key].values[c] = NaN

\* C3: the scorer is invoked once per category level, in the order of the
\* levels, and the table of a level is recorded under its name before the
\* invocation for the next level starts.
C3_OncePerLevelInOrder ==
    (pc \in {"loop", "in_call", "done"}) =>
        /\ samples = adata_obs[sample_key].categories
        /\ pre_obs[sample_key].dtype = "category"
              => samples = pre_obs[sample_key].categories
        /\ CalledSamples = SubSeq(samples, 1, Len(calls))
        /\ pc = "in_call" => /\ Len(calls) = i
                             /\ RecordedSamples = SubSeq(samples, 1, i - 1)
        /\ pc = "loop" => /\ Len(calls) = i - 1
                          /\ RecordedSamples = SubSeq(samples, 1, i - 1)
        /\ pc = "done" => CalledSamples = samples

C3_Witness ==
    /\ pc = "done"
    /\ samples = <<2, 1>>
    /\ Len(calls) = 2

\* C4: a sample key column that is not categorical is coerced to categorical
\* in place, a warning is emitted, and the per-sample runs go on.
C4_CoercionWarns ==
    (pc # "idle" /\ sample_key \in DOMAIN pre_obs
         /\ pre_obs[sample_key].dtype # "category") =>
        /\ adata_obs[sample_key].dtype = "category"
        /\ warnings # <<>>
        /\ pc \in {"loop", "in_call", "done"} \/ exc # "none"

\* C5: when every per-sample run succeeded, the table by_sample produces is
\* the per-sample tables one after the other in iteration order, every row
\* kept, each row carrying the name of its sample in a column named after
\* sample_key, and the rows numbered anew from 0.
C5_ConcatenationOfSamples ==
    pc = "done" =>
        /\ Len(Combined.rows) = RowsBefore(Len(returned))
        /\ Combined.index = [j \in 1..Len(Combined.rows) |-> j - 1]
        /\ [k \in 1..Len(returned) |-> returned[k].sample] = samples
        /\ \A k \in DOMAIN returned : \A j \in DOMAIN returned[k].df.rows :
              Combined.rows[RowsBefore(k - 1) + j]
                  = WithColumn(returned[k].df.rows[j], sample_key, returned[k].sample)

C5_Witness ==
    /\ pc = "done"
    /\ Len(returned) = 2
    /\ Len(returned[1].df.rows) >= 1
    /\ Len(returned[2].df.rows) >= 1
    /\ returned[2].df.index # <<0>>

\* C6: for every sample level s, the rows of the combined table tagged s,
\* without the sample column, are the rows the scorer returns when called
\* directly on the cells of adata whose sample_key is s.
C6_SliceEqualsDirectRun ==
    pc = "done" =>
        \A s \in Range(samples) :
            {WithoutColumn(Combined.rows[j], sample_key) :
                 j \in {n \in DOMAIN Combined.rows : Combined.rows[n][sample_key] = s}}
            = Range(Method_call(adata_obs,
                                {c \in Cells : adata_obs[sample_key].values[c] = s},
                                FALSE).df.rows)

C6_Witness ==
    /\ pc = "done"
    /\ Len(samples) = 2
    /\ \A k \in {1, 2} : Len(returned[k].df.rows) >= 1
    /\ returned[1].df.rows # returned[2].df.rows

\* C7: when the scorer raises during some sample, by_sample ends with that
\* exception at once: no later level is scored, no combined table is built
\* or returned, and the failure is not collected.
C7_ScorerErrorPropagates ==
    exc = "ScorerError" =>
        /\ pc = "raised"
        /\ ret = Unset
        /\ adata_uns.kind = "dict"
        /\ CalledSamples = SubSeq(samples, 1, i)
        /\ RecordedSamples = SubSeq(samples, 1, i - 1)

C7_Witness ==
    /\ pc = "raised"
    /\ exc = "ScorerError"
    /\ i = 1
    /\ Len(samples) = 2

\* C8: with inplace=False by_sample returns the combined table and leaves
\* adata.uns['liana_res'] as it was before the call; with inplace=True it
\* stores the combined table there and returns None.
C8_InplaceFrame ==
    pc = "done" =>
        /\ ~inplace => /\ ret.kind = "table"
                       /\ adata_uns = pre_uns
        /\ inplace => /\ ret = None
                      /\ adata_uns.kind = "table"

\* ---- result tables ------------------------------------------------------
Some(v) == [kind |-> "some", v |-> v]

\* the group names the rows of a result table have as source and as target
SourceNames == {1, 2}
TargetNames == {1, 2}
\* the names a labels argument can ask for; 3 names no group of any table
LabelNames == {1, 2, 3}

\* the ligand-receptor pairs of the resource, in the lexical order of names
Resource == << <<"L1", "R1">>, <<"L1", "R2">>, <<"L2", "R1">> >>

\* the (source, target, pair) combinations rows are drawn from: the first
\* NKeys of this list
KeyList ==
    << <<1, 1, 1>>, <<2, 2, 1>>, <<1, 2, 2>>, <<2, 1, 2>>,
       <<1, 2, 1>>, <<2, 1, 1>>, <<1, 1, 2>>, <<2, 2, 2>> >>
Keys == {KeyList[n] : n \in 1..NKeys}

\* position of a key in the order the scorer emits rows: by source, target,
\* ligand and receptor
KeyRank(k) ==
    ((k[1] - 1) * Cardinality(TargetNames) + (k[2] - 1)) * Len(Resource) + (k[3] - 1)

\* statistics are fixed-point numbers, in hundredths
Scores == {100 * n : n \in 1..MaxScore}
FloatNaN == -99999

ResultRow(k, v) ==
    [source |-> k[1], target |-> k[2],
     ligand_complex |-> Resource[k[3]][1],
     receptor_complex |-> Resource[k[3]][2],
     lr_means |-> v]

MkTable(S, sc) ==
    LET ranks == SortedSeq({KeyRank(k) : k \in S})
        key(n) == CHOOSE k \in S : KeyRank(k) = ranks[n]
    IN [index |-> [j \in 1..Len(ranks) |-> j - 1],
        rows |-> [j \in 1..Len(ranks) |-> ResultRow(key(j), sc[key(j)])]]

\* the result tables a caller can hand to dotplot: at most MaxRows rows, at
\* most one row per key
ResultTables ==
    UNION {{MkTable(S, sc) : sc \in [S -> Scores]} :
              S \in {T \in SUBSET Keys : Cardinality(T) <= MaxRows}}

\* df[msk]: the rows a boolean mask keeps, with their index labels
FilterRows(df, msk) ==
    LET kept(j) == msk[j]
        pos == SelectSeq([j \in 1..Len(df.rows) |-> j], kept)
    IN [index |-> [k \in 1..Len(pos) |-> df.index[pos[k]]],
        rows |-> [k \in 1..Len(pos) |-> df.rows[pos[k]]]]

ColumnValues(df, col) == {df.rows[j][col] : j \in DOMAIN df.rows}

\* ---- _dotplot.py --------------------------------------------------------
\* _filter_labels that drops the requested labels the table lacks
filter_labels_silent(liana_res, labels, label_type) ==
    IF labels = None
    THEN [raised |-> FALSE, not_covered |-> <<>>, df |-> liana_res]
    ELSE LET msk == [j \in 1..Len(liana_res.rows) |->
                        liana_res.rows[j][label_type] \in Range(labels.v)]
         IN [raised |-> FALSE, not_covered |-> <<>>, df |-> FilterRows(liana_res, msk)]

\* _filter_labels, lines 276-287
filter_labels(liana_res, labels, label_type) ==
    IF labels = None
    THEN [raised |-> FALSE, not_covered |-> <<>>, df |-> liana_res]
    ELSE LET uncovered(l) == l \notin ColumnValues(liana_res, label_type)
             not_covered == SelectSeq(labels.v, uncovered)
             msk == [j \in 1..Len(liana_res.rows) |->
                        liana_res.rows[j][label_type] \in Range(labels.v)]
         IN IF not_covered # <<>>
            THEN [raised |-> TRUE, not_covered |-> not_covered, df |-> liana_res]
            ELSE [raised |-> FALSE, not_covered |-> <<>>,
                  df |-> FilterRows(liana_res, msk)]

\* line 263: the interaction label
add_interaction(liana_res) ==
    [index |-> liana_res.index,
     rows |-> [j \in 1..Len(liana_res.rows) |->
                 LET r == liana_res.rows[j]
                 IN [c \in DOMAIN r \cup {"interaction"} |->
                        IF c = "interaction"
                        THEN r["ligand_complex"] \o " -> " \o r["receptor_complex"]
                        ELSE r[c]]]]

\* a filter_lambda: a comparison with a threshold
Lambdas == {[op |-> "ge", thr |-> 200], [op |-> "le", thr |-> 100]}
Apply(f, v) == IF f.op = "ge" THEN v >= f.thr ELSE v <= f.thr

\* the predicate filter keeping the rows that pass and no other
filter_by_rows(liana_res, filterby, filter_lambda) ==
    LET msk == [j \in 1..Len(liana_res.rows) |->
                   Apply(filter_lambda, liana_res.rows[j][filterby])]
    IN FilterRows(liana_res, msk)

\* lines 79-81: the rows of every interaction one of whose rows passes
filter_by(liana_res, filterby, filter_lambda) ==
    LET msk == [j \in 1..Len(liana_res.rows) |->
                   Apply(filter_lambda, liana_res.rows[j][filterby])]
        relevant_interactions == ColumnValues(FilterRows(liana_res, msk), "interaction")
        isin == [j \in 1..Len(liana_res.rows) |->
                    liana_res.rows[j]["interaction"] \in relevant_interactions]
    IN FilterRows(liana_res, isin)

SetMin(S) == CHOOSE v \in S : \A w \in S : v <= w
SetMax(S) == CHOOSE v \in S : \A w \in S : v >= w

\* position of a row's ligand-receptor pair in the lexical order of names
LRIndex(r) ==
    CHOOSE n \in DOMAIN Resource :
        Resource[n] = <<r["ligand_complex"], r["receptor_complex"]>>

\* _aggregate_scores, lines 268-269: one row per group of the entities, the
\* groups in the sorted order of their keys, the index renumbered
aggregate_scores(res, what, how, entities) ==
    LET key(r) == [c \in entities |-> r[c]]
        members(g) == {j \in DOMAIN res.rows : key(res.rows[j]) = g}
        groups == {key(res.rows[j]) : j \in DOMAIN res.rows}
        ord == SortedSeq({LRIndex(g) : g \in groups})
        group(n) == CHOOSE g \in groups : LRIndex(g) = ord[n]
        score(g) == LET vs == {res.rows[j][what] : j \in members(g)}
                    IN IF how = "min" THEN SetMin(vs) ELSE SetMax(vs)
    IN [index |-> [n \in 1..Len(ord) |-> n - 1],
        rows |-> [n \in 1..Len(ord) |->
                    LET g == group(n)
                    IN [c \in entities \cup {"score"} |->
                           IF c = "score" THEN score(g) ELSE g[c]]]]

\* the orders in which a sort may leave rows that compare equal
TieOrders(n) == {t \in [1..n -> 1..n] : \A a, b \in 1..n : a # b => t[a] # t[b]}

\* DataFrame.sort_values(by, ascending=...): the default sort is not stable,
\* rows with equal values come out in the order `tie` ranks them
RECURSIVE SortPositions(_, _, _, _, _)
SortPositions(df, by, ascending, tie, left) ==
    IF left = {} THEN <<>>
    ELSE LET before(a, b) ==
                 \/ ascending /\ df.rows[a][by] < df.rows[b][by]
                 \/ ~ascending /\ df.rows[a][by] > df.rows[b][by]
                 \/ df.rows[a][by] = df.rows[b][by] /\ tie[a] <= tie[b]
             first == CHOOSE a \in left : \A b \in left : before(a, b)
         IN <<first>> \o SortPositions(df, by, ascending, tie, left \ {first})

\* sort_values that ignores the direction it is given
sort_values_ascending_only(df, by, ascending, tie) ==
    LET pos == SortPositions(df, by, TRUE, tie, DOMAIN df.rows)
    IN [index |-> [k \in 1..Len(pos) |-> df.index[pos[k]]],
        rows |-> [k \in 1..Len(pos) |-> df.rows[pos[k]]]]

sort_values(df, by, ascending, tie) ==
    LET pos == SortPositions(df, by, ascending, tie, DOMAIN df.rows)
    IN [index |-> [k \in 1..Len(pos) |-> df.index[pos[k]]],
        rows |-> [k \in 1..Len(pos) |-> df.rows[pos[k]]]]

\* head that takes the n-th row alone (iloc[n-1:n])
head_nth(df, n) ==
    LET m == IF n < Len(df.rows) THEN n ELSE Len(df.rows)
    IN [index |-> SubSeq(df.index, m, m), rows |-> SubSeq(df.rows, m, m)]

\* DataFrame.head(n), n >= 0
head(df, n) ==
    LET m == IF n < Len(df.rows) THEN n ELSE Len(df.rows)
    IN [index |-> SubSeq(df.index, 1, m), rows |-> SubSeq(df.rows, 1, m)]

\* lines 93-100: the rows of the top_n interactions by aggregated statistic
top_n_rows(liana_res, top_n, orderby, how, ascending, tie) ==
    LET agg == aggregate_scores(liana_res, orderby, how,
                                {"interaction", "ligand_complex", "receptor_complex"})
        top_lrs == ColumnValues(head(sort_values(agg, "score", ascending, tie), top_n),
                                "interaction")
        isin == [j \in 1..Len(liana_res.rows) |->
                    liana_res.rows[j]["interaction"] \in top_lrs]
    IN FilterRows(liana_res, isin)

\* _inverse_scores, lines 272-273: -log10(score + eps) in hundredths
inverse_scores(v) ==
    IF v = FloatNaN \/ v < 0 THEN FloatNaN
    ELSE IF v = 0 THEN 1565
    ELSE IF v <= 100 THEN 0
    ELSE IF v <= 200 THEN -30
    ELSE IF v <= 300 THEN -48
    ELSE IF v <= 400 THEN -60
    ELSE -70

\* liana_res[col] = _inverse_scores(liana_res[col])
inverse_column(liana_res, col) ==
    [index |-> liana_res.index,
     rows |-> [j \in 1..Len(liana_res.rows) |->
                 [liana_res.rows[j] EXCEPT ![col] = inverse_scores(@)]]]

\* the objects a name can be bound to: the caller's table, or a new one
Objects == {"caller", "fresh"}

\* a working table taken without a copy: the same object
copy_none(obj) == obj

\* DataFrame.copy(): a new object with the same rows
copy(obj) == "fresh"

\* liana_res[msk]: a new object
getitem(obj) == "fresh"

Exception(type, origin, names) ==
    [kind |-> "exception", type |-> type, origin |-> origin, names |-> names]

\* a labels argument: None, or a list of one or two names
LabelArgs ==
    {None} \cup {Some(SortedSeq(S)) :
                    S \in {T \in SUBSET LabelNames : Cardinality(T) \in 1..2}}

DotplotInit ==
    /\ TopNIdle
    /\ RegistryIdle
    /\ dp_table \in ResultTables
    /\ dp_cur = None
    /\ dp_ref = "caller"
    /\ dp_in = None
    /\ dp_arg = None
    /\ dp_exc = None
    /\ dp_ret = Unset
    /\ dp_pc = "start"
    /\ adata_obs = [sample |-> [dtype |-> "object", values |-> [c \in Cells |-> NaN],
                                categories |-> <<>>]]
    /\ adata_uns = Absent
    /\ pre_obs = adata_obs
    /\ pre_uns = adata_uns
    /\ sample_key = "sample"
    /\ inplace = TRUE
    /\ samples = <<>>
    /\ i = 0
    /\ temp = {}
    /\ calls = <<>>
    /\ returned = <<>>
    /\ warnings = <<>>
    /\ ret = Unset
    /\ exc = "none"
    /\ pc = "idle"

\* dotplot line 71 and _prep_liana_res lines 244-260: the argument checks,
\* the copy of the caller's table, the filter on source
dotplot_prep_source ==
    /\ UNCHANGED <<bs_vars, tn_vars, reg_vars>>
    /\ dp_pc = "start"
    /\ \E colour \in {None, Some("lr_means")}, size \in {None, Some("lr_means")},
          given \in {"liana_res", "adata", "adata_without_res", "neither"},
          source_labels \in LabelArgs :
        /\ dp_arg' = [colour |-> colour, size |-> size, given |-> given,
                      labels |-> source_labels, label_type |-> "source"]
        /\ IF colour = None
           THEN /\ dp_exc' = Exception("ValueError", "colour", <<>>)
                /\ dp_pc' = "raised"
                /\ UNCHANGED <<dp_cur, dp_ref, dp_in>>
           ELSE IF size = None
           THEN /\ dp_exc' = Exception("ValueError", "size", <<>>)
                /\ dp_pc' = "raised"
                /\ UNCHANGED <<dp_cur, dp_ref, dp_in>>
           ELSE IF given = "neither"
           THEN /\ dp_exc' = Exception("AttributeError", "_prep_liana_res", <<>>)
                /\ dp_pc' = "raised"
                /\ UNCHANGED <<dp_cur, dp_ref, dp_in>>
           ELSE IF given = "adata_without_res"
           THEN /\ dp_exc' = Exception("AssertionError", "_prep_liana_res", <<>>)
                /\ dp_pc' = "raised"
                /\ UNCHANGED <<dp_cur, dp_ref, dp_in>>
           ELSE LET obj == IF given = "adata" THEN copy(copy("caller"))
                           ELSE copy("caller")
                    r == filter_labels(dp_table, source_labels, "source")
                IN /\ dp_in' = dp_table
                   /\ dp_cur' = r.df
                   /\ dp_ref' = IF source_labels = None \/ r.raised THEN obj
                                ELSE getitem(obj)
                   /\ IF r.raised
                      THEN /\ dp_exc' = Exception("ValueError", "_filter_labels",
                                                  r.not_covered)
                           /\ dp_pc' = "raised"
                      ELSE /\ dp_exc' = dp_exc
                           /\ dp_pc' = "source_done"
    /\ UNCHANGED <<dp_table, dp_ret>>

\* _prep_liana_res line 261: the filter on target
dotplot_prep_target ==
    /\ UNCHANGED <<bs_vars, tn_vars, reg_vars>>
    /\ dp_pc = "source_done"
    /\ \E target_labels \in LabelArgs :
        LET r == filter_labels(dp_cur, target_labels, "target")
        IN /\ dp_arg' = [colour |-> dp_arg.colour, size |-> dp_arg.size,
                         labels |-> target_labels, label_type |-> "target"]
           /\ dp_in' = dp_cur
           /\ dp_cur' = r.df
           /\ dp_ref' = IF target_labels = None \/ r.raised THEN dp_ref
                        ELSE getitem(dp_ref)
           /\ IF r.raised
              THEN /\ dp_exc' = Exception("ValueError", "_filter_labels", r.not_covered)
                   /\ dp_pc' = "raised"
              ELSE /\ dp_exc' = dp_exc
                   /\ dp_pc' = "target_done"
    /\ UNCHANGED <<dp_table, dp_ret>>

\* _prep_liana_res lines 263-265: the interaction column
dotplot_prep_label ==
    /\ UNCHANGED <<bs_vars, tn_vars, reg_vars>>
    /\ dp_pc = "target_done"
    /\ dp_arg' = [colour |-> dp_arg.colour, size |-> dp_arg.size]
    /\ dp_in' = dp_cur
    \* the assignment of a column changes the object in place
    /\ dp_cur' = add_interaction(dp_cur)
    /\ dp_table' = IF dp_ref = "caller" THEN dp_cur' ELSE dp_table
    /\ dp_pc' = "prepped"
    /\ UNCHANGED <<dp_ref, dp_exc, dp_ret>>

\* dotplot lines 78-81: the predicate filter
dotplot_filter ==
    /\ UNCHANGED <<bs_vars, tn_vars, reg_vars>>
    /\ dp_pc = "prepped"
    /\ \E filterby \in {None, Some("lr_means")}, filter_lambda \in Lambdas :
        /\ dp_arg' = [colour |-> dp_arg.colour, size |-> dp_arg.size,
                      filterby |-> filterby,
                      filter_lambda |-> IF filterby = None THEN None
                                        ELSE Some(filter_lambda)]
        /\ dp_in' = dp_cur
        /\ IF filterby = None
           THEN UNCHANGED <<dp_cur, dp_ref>>
           ELSE /\ dp_cur' = filter_by(dp_cur, filterby.v, filter_lambda)
                /\ dp_ref' = getitem(dp_ref)
    /\ dp_pc' = "filtered"
    /\ UNCHANGED <<dp_table, dp_exc, dp_ret>>

\* dotplot lines 83-100: the top_n interactions
dotplot_top_n ==
    /\ UNCHANGED <<bs_vars, tn_vars, reg_vars>>
    /\ dp_pc = "filtered"
    /\ \E top_n \in {None} \cup {Some(n) : n \in 1..MaxTopN},
          orderby \in {None, Some("lr_means")},
          orderby_ascending \in {None, Some(TRUE), Some(FALSE)} :
       \E old_pandas \in (IF orderby_ascending = None THEN BOOLEAN ELSE {FALSE}) :
        /\ dp_arg' = [colour |-> dp_arg.colour, size |-> dp_arg.size,
                      top_n |-> top_n, orderby |-> orderby,
                      orderby_ascending |-> orderby_ascending]
        /\ dp_in' = dp_cur
        /\ IF top_n = None
           THEN /\ dp_pc' = "selected"
                /\ UNCHANGED <<dp_cur, dp_ref, dp_exc>>
           ELSE IF orderby = None
           THEN \* lines 85-86 build a ValueError and drop it; the aggregation
                \* of the column None fails
                /\ dp_exc' = Exception("KeyError", "_aggregate_scores", <<>>)
                /\ dp_pc' = "raised"
                /\ UNCHANGED <<dp_cur, dp_ref>>
           ELSE IF orderby_ascending = None /\ ~old_pandas
           THEN \* lines 87-88 build a ValueError and drop it; sort_values
                \* rejects ascending=None
                /\ dp_exc' = Exception("ValueError", "sort_values", <<>>)
                /\ dp_pc' = "raised"
                /\ UNCHANGED <<dp_cur, dp_ref>>
           ELSE \* an older sort_values takes ascending=None as descending
                LET asc == orderby_ascending # None /\ orderby_ascending.v
                    how == IF asc THEN "min" ELSE "max"
                    n == Cardinality(ColumnValues(dp_cur, "interaction"))
                IN \E tie \in TieOrders(n) :
                    /\ dp_cur' = top_n_rows(dp_cur, top_n.v, orderby.v, how, asc, tie)
                    /\ dp_ref' = getitem(dp_ref)
                    /\ dp_exc' = dp_exc
                    /\ dp_pc' = "selected"
    /\ UNCHANGED <<dp_table, dp_ret>>

\* dotplot lines 102-134: the rescaling of the displayed columns and the plot
dotplot_render ==
    /\ UNCHANGED <<bs_vars, tn_vars, reg_vars>>
    /\ dp_pc = "selected"
    /\ \E inverse_colour \in BOOLEAN, inverse_size \in BOOLEAN :
        LET c == IF inverse_colour THEN inverse_column(dp_cur, dp_arg.colour.v)
                 ELSE dp_cur
            d == IF inverse_size THEN inverse_column(c, dp_arg.size.v) ELSE c
        IN /\ dp_arg' = [colour |-> dp_arg.colour, size |-> dp_arg.size,
                         inverse_colour |-> inverse_colour,
                         inverse_size |-> inverse_size]
           /\ dp_in' = dp_cur
           \* the assignment of a column changes the object in place
           /\ dp_cur' = d
           /\ dp_table' = IF dp_ref = "caller" THEN d ELSE dp_table
           \* return_fig is left at its default: the plot is returned
           /\ dp_ret' = Table(d)
    /\ dp_pc' = "done"
    /\ UNCHANGED <<dp_ref, dp_exc>>

\* np.isin(liana_res[col], names) as a row mask; names None keeps the table
isin_rows(liana_res, col, names) ==
    IF names = None THEN liana_res
    ELSE FilterRows(liana_res, [j \in 1..Len(liana_res.rows) |->
                                   liana_res.rows[j][col] \in Range(names.v)])

\* dotplot_by_sample lines 199-202, after the same _prep_liana_res: the
\* filters on ligand_complex and receptor_complex
dotplot_by_sample_filter ==
    /\ UNCHANGED <<bs_vars, tn_vars, reg_vars>>
    /\ dp_pc = "prepped"
    /\ \E ligand_complex \in {None, Some(<<"L1">>)},
          receptor_complex \in {None, Some(<<"R1">>), Some(<<"R2">>)} :
        /\ dp_arg' = [colour |-> dp_arg.colour, size |-> dp_arg.size,
                      ligand_complex |-> ligand_complex,
                      receptor_complex |-> receptor_complex]
        /\ dp_in' = dp_cur
        /\ dp_cur' = isin_rows(isin_rows(dp_cur, "ligand_complex", ligand_complex),
                               "receptor_complex", receptor_complex)
        /\ dp_ref' = IF ligand_complex = None /\ receptor_complex = None
                     THEN dp_ref ELSE getitem(dp_ref)
    /\ dp_pc' = "sample_selected"
    /\ UNCHANGED <<dp_table, dp_exc, dp_ret>>

\* dotplot_by_sample lines 205-235: the rescaling of the displayed columns
\* and the plot
dotplot_by_sample_render ==
    /\ UNCHANGED <<bs_vars, tn_vars, reg_vars>>
    /\ dp_pc = "sample_selected"
    /\ \E inverse_colour \in BOOLEAN, inverse_size \in BOOLEAN :
        LET c == IF inverse_colour THEN inverse_column(dp_cur, dp_arg.colour.v)
                 ELSE dp_cur
            d == IF inverse_size THEN inverse_column(c, dp_arg.size.v) ELSE c
        IN /\ dp_arg' = [colour |-> dp_arg.colour, size |-> dp_arg.size,
                         inverse_colour |-> inverse_colour,
                         inverse_size |-> inverse_size]
           /\ dp_in' = dp_cur
           \* the assignment of a column changes the object in place
           /\ dp_cur' = d
           /\ dp_table' = IF dp_ref = "caller" THEN d ELSE dp_table
           \* return_fig is left at its default: the plot is returned
           /\ dp_ret' = Table(d)
    /\ dp_pc' = "sample_done"
    /\ UNCHANGED <<dp_ref, dp_exc>>

NextDotplot ==
    \/ dotplot_prep_source
    \/ dotplot_prep_target
    \/ dotplot_prep_label
    \/ dotplot_filter
    \/ dotplot_top_n
    \/ dotplot_render
    \/ dotplot_by_sample_filter
    \/ dotplot_by_sample_render

SpecDotplot == DotplotInit /\ [][NextDotplot]_vars

\* ---- properties of the dotplot transforms -------------------------------
\* the latest step was a run of _filter_labels
LabelFilterRan ==
    /\ dp_pc \in {"source_done", "target_done", "raised"}
    /\ "label_type" \in DOMAIN dp_arg
    /\ dp_pc = "raised" => dp_exc.origin = "_filter_labels"

\* C9: label-set filtering on source, then on target: when every requested
\* label occurs in the column of the table being filtered, exactly the rows
\* whose value is in the list are kept; when some requested label does not
\* occur, the call fails with a ValueError that names the requested labels
\* that are absent, and only those, and nothing is returned.
C9_LabelFiltering ==
    (LabelFilterRan /\ dp_arg.labels # None) =>
        LET labels == Range(dp_arg.labels.v)
            col == dp_arg.label_type
            missing == labels \ ColumnValues(dp_in, col)
            allowed(r) == r[col] \in labels
        IN /\ missing = {} =>
                /\ dp_pc # "raised"
                /\ dp_cur.rows = SelectSeq(dp_in.rows, allowed)
           /\ missing # {} =>
                /\ dp_pc = "raised"
                /\ dp_exc.type = "ValueError"
                /\ Range(dp_exc.names) = missing
                /\ dp_ret = Unset

\* a target list with one label the source filter removed from the table and
\* one label still there: the error names the first and not the second
C9_Witness ==
    /\ dp_pc = "raised"
    /\ dp_exc.origin = "_filter_labels"
    /\ dp_arg.label_type = "target"
    /\ Len(dp_arg.labels.v) = 2
    /\ Len(dp_exc.names) = 1
    /\ dp_exc.names[1] \in ColumnValues(dp_table, "target")

\* the latest step was a top_n selection with both of its arguments given
TopNRan ==
    /\ dp_pc = "selected"
    /\ "top_n" \in DOMAIN dp_arg
    /\ dp_arg.top_n # None
    /\ dp_arg.orderby_ascending # None

\* the orderby values of the rows of an interaction before the selection
OrderbyValues(x) ==
    {dp_in.rows[j][dp_arg.orderby.v] :
         j \in {n \in DOMAIN dp_in.rows : dp_in.rows[n]["interaction"] = x}}

\* C10: top_n selection: the orderby statistic is aggregated per interaction
\* over all its rows (minimum when ascending, maximum when descending), the
\* interactions are ranked by it in the direction of orderby_ascending, and
\* the output is every row of the first top_n interactions and no other row.
C10_TopNSelection ==
    TopNRan =>
        LET asc == dp_arg.orderby_ascending.v
            inter == ColumnValues(dp_in, "interaction")
            agg(x) == IF asc THEN SetMin(OrderbyValues(x)) ELSE SetMax(OrderbyValues(x))
            kept == ColumnValues(dp_cur, "interaction")
            selected(r) == r["interaction"] \in kept
        IN /\ kept \subseteq inter
           /\ Cardinality(kept) = IF dp_arg.top_n.v < Cardinality(inter)
                                  THEN dp_arg.top_n.v ELSE Cardinality(inter)
           /\ \A a \in kept, b \in inter \ kept :
                 IF asc THEN agg(a) <= agg(b) ELSE agg(a) >= agg(b)
           /\ dp_cur.rows = SelectSeq(dp_in.rows, selected)

\* one of two interactions is kept, with both its rows, because the smaller
\* of its two values is below the other interaction's
C10_Witness ==
    /\ TopNRan
    /\ dp_arg.top_n.v = 1
    /\ dp_arg.orderby_ascending.v
    /\ Cardinality(ColumnValues(dp_in, "interaction")) = 2
    /\ Len(dp_cur.rows) = 2
    /\ Len(dp_in.rows) = 3
    /\ Cardinality(ColumnValues(dp_cur, "lr_means")) = 2

\* ---- top_n selections of one table compared ------------------------------
\* rows per interaction in the tables compared: one for each of two
\* source-target pairs, so that min and max over an interaction differ
TopNKeys == {<<s, s, p>> : s \in {1, 2}, p \in DOMAIN Resource}

\* the prepared tables (interaction column added) the calls are compared on
TopNTables ==
    UNION {{add_interaction(MkTable(S, sc)) : sc \in [S -> Scores]} :
              S \in {T \in SUBSET TopNKeys : Cardinality(T) <= MaxRows}}

\* the sort is a function of the frame it sorts: calls that differ in top_n
\* alone sort the same aggregated frame and find equal rows in the same order
TopNInit ==
    /\ tn_table \in TopNTables
    /\ tn_asc \in BOOLEAN
    /\ tn_tie \in TieOrders(Cardinality(ColumnValues(tn_table, "interaction")))
    /\ tn_out = <<>>
    /\ DotplotIdle
    /\ RegistryIdle
    /\ adata_obs = [sample |-> [dtype |-> "object", values |-> [c \in Cells |-> NaN],
                                categories |-> <<>>]]
    /\ adata_uns = Absent
    /\ pre_obs = adata_obs
    /\ pre_uns = adata_uns
    /\ sample_key = "sample"
    /\ inplace = TRUE
    /\ samples = <<>>
    /\ i = 0
    /\ temp = {}
    /\ calls = <<>>
    /\ returned = <<>>
    /\ warnings = <<>>
    /\ ret = Unset
    /\ exc = "none"
    /\ pc = "idle"

\* dotplot lines 83-100 with top_n one more than in the call before, all
\* other arguments the same
top_n_call ==
    /\ Len(tn_out) <= MaxTopN
    /\ LET K == Len(tn_out) + 1
           how == IF tn_asc THEN "min" ELSE "max"
       IN tn_out' = Append(tn_out,
                           top_n_rows(tn_table, K, "lr_means", how, tn_asc, tn_tie))
    /\ UNCHANGED <<tn_table, tn_asc, tn_tie, bs_vars, dp_vars, reg_vars>>

NextTopN == top_n_call

SpecTopN == TopNInit /\ [][NextTopN]_vars

\* the aggregated orderby value of an interaction of the table compared on
TopNAgg(x) ==
    LET vs == {tn_table.rows[j]["lr_means"] :
                  j \in {n \in DOMAIN tn_table.rows :
                            tn_table.rows[n]["interaction"] = x}}
    IN IF tn_asc THEN SetMin(vs) ELSE SetMax(vs)

\* C11: top_n is monotone: on the same table, with the same orderby and
\* orderby_ascending, for any K < K' the interactions retained with
\* top_n = K' include all those retained with top_n = K, ties on the
\* aggregated value included.
C11_TopNMonotone ==
    \A K \in DOMAIN tn_out, L \in DOMAIN tn_out :
        K < L => ColumnValues(tn_out[K], "interaction")
                     \subseteq ColumnValues(tn_out[L], "interaction")

\* three interactions, the one retained with top_n = 1 tied on the aggregated
\* value with one that is not; top_n = 2 retains two of the three
C11_Witness ==
    /\ Len(tn_out) >= 2
    /\ Cardinality(ColumnValues(tn_table, "interaction")) = 3
    /\ Cardinality(ColumnValues(tn_out[1], "interaction")) = 1
    /\ Cardinality(ColumnValues(tn_out[2], "interaction")) = 2
    /\ \E x \in ColumnValues(tn_out[1], "interaction"),
          y \in ColumnValues(tn_table, "interaction")
                   \ ColumnValues(tn_out[1], "interaction") :
           TopNAgg(x) = TopNAgg(y)

\* the latest step was a predicate filter with filterby given
FilterRan ==
    /\ dp_pc = "filtered"
    /\ "filterby" \in DOMAIN dp_arg
    /\ dp_arg.filterby # None

\* C12: predicate filtering: the output holds all rows, passing or not, of
\* every interaction that has at least one row passing filter_lambda on the
\* filterby column, and no row of an interaction none of whose rows passes.
C12_PredicateFiltering ==
    FilterRan =>
        LET passes(r) == Apply(dp_arg.filter_lambda.v, r[dp_arg.filterby.v])
            relevant == {dp_in.rows[j]["interaction"] :
                            j \in {n \in DOMAIN dp_in.rows : passes(dp_in.rows[n])}}
            retained(r) == r["interaction"] \in relevant
        IN /\ dp_cur.rows = SelectSeq(dp_in.rows, retained)
           /\ \A j \in DOMAIN dp_in.rows :
                 (\E k \in DOMAIN dp_cur.rows : dp_cur.rows[k] = dp_in.rows[j])
                     <=> dp_in.rows[j]["interaction"] \in relevant

\* of three rows, two are of an interaction with one passing row and one
\* failing row, both retained; the third, of an interaction with no passing
\* row, is dropped
C12_Witness ==
    /\ FilterRan
    /\ Len(dp_in.rows) = 3
    /\ Len(dp_cur.rows) = 2
    /\ Cardinality(ColumnValues(dp_cur, "interaction")) = 1
    /\ \E j \in DOMAIN dp_cur.rows :
           ~Apply(dp_arg.filter_lambda.v, dp_cur.rows[j][dp_arg.filterby.v])

\* the latest step was the top_n block, entered with top_n given
TopNEntered ==
    /\ dp_pc \in {"selected", "raised"}
    /\ "top_n" \in DOMAIN dp_arg
    /\ dp_arg.top_n # None

\* C13: a missing required argument is an error raised at once: with top_n
\* given and orderby None, or top_n given and orderby_ascending None, dotplot
\* raises a ValueError asking for the missing argument before anything is
\* aggregated or ranked; with colour or size missing it raises a ValueError
\* before any label is filtered.
C13_MissingArgumentsRaise ==
    /\ (TopNEntered /\ dp_arg.orderby = None) =>
          /\ dp_pc = "raised"
          /\ dp_exc = Exception("ValueError", "orderby", <<>>)
    /\ (TopNEntered /\ dp_arg.orderby # None /\ dp_arg.orderby_ascending = None) =>
          /\ dp_pc = "raised"
          /\ dp_exc = Exception("ValueError", "orderby_ascending", <<>>)
    /\ (dp_pc # "start" /\ "given" \in DOMAIN dp_arg /\ dp_arg.colour = None) =>
          /\ dp_pc = "raised"
          /\ dp_exc = Exception("ValueError", "colour", <<>>)
          /\ dp_cur = None
    /\ (dp_pc # "start" /\ "given" \in DOMAIN dp_arg
           /\ dp_arg.colour # None /\ dp_arg.size = None) =>
          /\ dp_pc = "raised"
          /\ dp_exc = Exception("ValueError", "size", <<>>)
          /\ dp_cur = None

\* C14: no partial results after an error: when by_sample ends with an
\* exception raised during a sample's run, adata.uns['liana_res'] holds what
\* it held before the call, neither emptied nor holding the results of the
\* samples that had completed.
C14_NoPartialResults ==
    (pc = "raised" /\ exc = "ScorerError") => adata_uns = pre_uns

\* C15: dotplot and dotplot_by_sample leave their input alone: through every
\* step of a call, with any combination of label filtering, predicate
\* filtering, top_n and inverse_colour / inverse_size, and whether the call
\* returns or raises, the caller's table (given as liana_res or held in
\* adata.uns['liana_res']) keeps its rows, columns and values.
C15_InputUntouched == [][dp_table' = dp_table]_vars

\* a call has returned a plot of fewer rows than the caller's table has, with
\* the interaction column added and the colour column rescaled
C15_Witness ==
    /\ dp_pc \in {"done", "sample_done"}
    /\ dp_arg.inverse_colour
    /\ Len(dp_cur.rows) > 0
    /\ Len(dp_cur.rows) < Len(dp_table.rows)
    /\ "interaction" \in DOMAIN dp_cur.rows[1]
    /\ "interaction" \notin DOMAIN dp_table.rows[1]
    /\ ColumnValues(dp_cur, "lr_means") \cap ColumnValues(dp_table, "lr_means") = {}

\* ---- the method registry (_Method.py) ------------------------------------
\* the score descriptions (_SCORE) methods are built from
MethodScores ==
    {[method_name |-> "CellPhoneDB", magnitude |-> Some("lr_means"),
      specificity |-> Some("pvals"), reference |-> "Efremova et al., 2020"],
     [method_name |-> "log2FC", magnitude |-> None,
      specificity |-> Some("lr_logfc"), reference |-> "Dimitrov et al., 2022"]}

\* get_meta, lines 80-87: the one-row descriptor of an instance; the
\* attribute `reference` set on line 66 hides the method of that name
get_meta(self) ==
    [index |-> <<0>>,
     rows |-> << [c \in {"Method Name", "Magnitude Score", "Specificity Score",
                         "Reference"} |->
                     CASE c = "Method Name" -> Some(self.attrs.method_name)
                       [] c = "Magnitude Score" -> self.attrs.magnitude
                       [] c = "Specificity Score" -> self.attrs.specificity
                       [] OTHER -> Some(self.attrs.reference)] >>]

\* proxy.get_meta(): a weakref.proxy forwards to its referent while the
\* referent exists and raises ReferenceError once it is gone
proxy_get_meta(id) ==
    IF heap[id].alive THEN Table(get_meta(heap[id]))
    ELSE Exception("ReferenceError", "weakref.proxy", <<>>)

\* _show_methods, lines 269-270: the descriptors of the methods, stacked
show_methods(methods) ==
    IF \E k \in DOMAIN methods : ~heap[methods[k]].alive
    THEN Exception("ReferenceError", "weakref.proxy", <<>>)
    ELSE Table([index |-> [k \in DOMAIN methods |-> 0],
                rows |-> [k \in DOMAIN methods |-> get_meta(heap[methods[k]]).rows[1]]])

RegistryInit ==
    /\ RegistryIdle
    /\ DotplotIdle
    /\ TopNIdle
    /\ adata_obs = [sample |-> [dtype |-> "object", values |-> [c \in Cells |-> NaN],
                                categories |-> <<>>]]
    /\ adata_uns = Absent
    /\ pre_obs = adata_obs
    /\ pre_uns = adata_uns
    /\ sample_key = "sample"
    /\ inplace = TRUE
    /\ samples = <<>>
    /\ i = 0
    /\ temp = {}
    /\ calls = <<>>
    /\ returned = <<>>
    /\ warnings = <<>>
    /\ ret = Unset
    /\ exc = "none"
    /\ pc = "idle"

\* MethodMeta.__init__, lines 19-66, called directly or through
\* Method.__init__ (lines 156-168): a weak proxy of the new instance is
\* appended to the class's list; the caller gets the only reference
MethodMeta_init(cls, score) ==
    /\ Len(heap) < MaxMethods
    /\ heap' = Append(heap, [alive |-> TRUE, cls |-> cls, attrs |-> score])
    /\ instances' = Append(instances, Len(heap) + 1)
    /\ strong' = strong \cup {Len(heap) + 1}
    /\ UNCHANGED <<reg_out, bs_vars, dp_vars, tn_vars>>

\* the caller drops its reference to an instance (del, rebinding, scope exit)
release(id) ==
    /\ id \in strong
    /\ strong' = strong \ {id}
    /\ UNCHANGED <<instances, heap, reg_out, bs_vars, dp_vars, tn_vars>>

\* an instance nothing refers to is reclaimed: at once under reference
\* counting, later under a tracing collector; its proxy stays in the list
collect(id) ==
    /\ id \in DOMAIN heap
    /\ id \notin strong
    /\ heap[id].alive
    /\ heap' = [heap EXCEPT ![id].alive = FALSE]
    /\ UNCHANGED <<instances, strong, reg_out, bs_vars, dp_vars, tn_vars>>

\* MethodMeta.instances[k].get_meta()
query_entry(k) ==
    /\ k \in DOMAIN instances
    /\ reg_out' = proxy_get_meta(instances[k])
    /\ UNCHANGED <<instances, heap, strong, bs_vars, dp_vars, tn_vars>>

\* _show_methods(MethodMeta.instances)
query_all ==
    /\ reg_out' = show_methods(instances)
    /\ UNCHANGED <<instances, heap, strong, bs_vars, dp_vars, tn_vars>>

NextRegistry ==
    \/ \E cls \in {"MethodMeta", "Method"}, score \in MethodScores :
          MethodMeta_init(cls, score)
    \/ \E id \in 1..MaxMethods : release(id)
    \/ \E id \in 1..MaxMethods : collect(id)
    \/ \E k \in 1..MaxMethods : query_entry(k)
    \/ query_all

SpecRegistry == RegistryInit /\ [][NextRegistry]_vars

\* C16: the registry is append-only and stays queryable: after any sequence
\* of constructions, and of releases of the caller's references,
\* MethodMeta.instances holds one entry per constructed instance in creation
\* order, every entry answers get_meta() with the one-row descriptor of its
\* instance, and _show_methods over the list yields one row per entry.
C16_RegistryStaysQueryable ==
    /\ Len(instances) = Len(heap)
    /\ \A k \in DOMAIN instances :
          /\ instances[k] = k
          /\ proxy_get_meta(instances[k]) = Table(get_meta(heap[k]))
    /\ LET all == show_methods(instances)
       IN /\ all.kind = "table"
          /\ Len(all.df.rows) = Len(instances)
    /\ reg_out = Unset \/ reg_out.kind = "table"

====
